---- MODULE Spec2Model ----
(***************************************************************************)
(* Streaming analysis client of APOLLO RoboDrill Analytics.                *)
(*                                                                         *)
(*  - analyzeStream (api/client.ts): fetch, read loop, TextDecoder, frame  *)
(*    scanning on "\n\n", JSON.parse, onEvent.                             *)
(*  - App (App.tsx): handleAnalyze / handleCancel and the React state      *)
(*    running, progress, result, status, selectedFile, controllerRef.      *)
(*  - ChartPanel (ChartPanel.tsx): the option memo (step, showTooltips).   *)
(*                                                                         *)
(* Text is a sequence of one-character strings.  The wire is a sequence of *)
(* bytes: an ASCII character is its own byte, and the two-byte character   *)
(* U+00E9 travels as the bytes "C3","A9".  JSON text is abbreviated: "{"   *)
(* and "}" are themselves and a letter stands for one "key":value member.  *)
(* Numbers that are fractions in the program (progress) are kept in        *)
(* hundredths: 0.5 is 50 and 1 is 100.  An optional field is a sequence of *)
(* length 0 (undefined / null) or 1.                                       *)
(***************************************************************************)
EXTENDS Integers, Sequences, FiniteSets, TLC

\* ------------------------------------------------------------------ bounds
MaxReq == 2          \* handleAnalyze calls that pass validation
MaxBuffer == 7       \* longest undelimited run kept in a request's buffer
MaxFrames == 2       \* frames on the wire of the decoder specification
MaxPoints == 8       \* points.length in the rendering specification
MaxLabelsCfg == 4    \* maxLabels in the rendering specification
MaxThreshold == 4    \* tooltipThreshold in the rendering specification
MaxFetches == 2      \* fetchFileContent calls in flight together

\* ------------------------------------------------------------ text helpers
NL == "\n"
Whitespace == {" ", NL}
DataPrefix == <<"d", "a", "t", "a", ":">>
Delimiter == <<NL, NL>>

Slice(s, from, to) == [i \in 1..(IF to >= from THEN to - from + 1 ELSE 0) |-> s[from + i - 1]]

RECURSIVE TrimStart(_)
TrimStart(s) ==
  IF s # <<>> /\ s[1] \in Whitespace THEN TrimStart(Tail(s)) ELSE s

RECURSIVE TrimEnd(_)
TrimEnd(s) ==
  IF s # <<>> /\ s[Len(s)] \in Whitespace THEN TrimEnd(Slice(s, 1, Len(s) - 1)) ELSE s

\* String.prototype.trim
Trim(s) == TrimEnd(TrimStart(s))

\* chunk.startsWith("data:")
StartsWithData(chunk) ==
  Len(chunk) >= Len(DataPrefix) /\ Slice(chunk, 1, Len(DataPrefix)) = DataPrefix

\* buffer.indexOf("\n\n"), 1-based; 0 when absent (JavaScript's -1)
IndexOfDelimiter(buffer) ==
  LET hits == {i \in 1..(Len(buffer) - 1) : buffer[i] = NL /\ buffer[i + 1] = NL}
  IN  IF hits = {} THEN 0 ELSE CHOOSE i \in hits : \A j \in hits : i <= j

\* --------------------------------------------------------------- TextDecoder
\* new TextDecoder().decode(value, {stream: true}): `pending` holds the lead
\* byte of a character whose continuation byte has not arrived yet.
Replacement == "U+FFFD"

RECURSIVE Utf8Decode(_, _, _)
Utf8Decode(pending, bytes, out) ==
  IF bytes = <<>> THEN [text |-> out, pending |-> pending]
  ELSE LET b == Head(bytes) IN
    IF pending # <<>>
    THEN IF b = "A9"
         THEN Utf8Decode(<<>>, Tail(bytes), Append(out, "U+00E9"))
         ELSE Utf8Decode(<<>>, bytes, Append(out, Replacement))
    ELSE IF b = "C3" THEN Utf8Decode(<<b>>, Tail(bytes), out)
    ELSE IF b = "A9" THEN Utf8Decode(<<>>, Tail(bytes), Append(out, Replacement))
    ELSE Utf8Decode(<<>>, Tail(bytes), Append(out, b))

\* TextEncoder / the server's UTF-8 serialisation of a text
RECURSIVE Utf8Encode(_)
Utf8Encode(text) ==
  IF text = <<>> THEN <<>>
  ELSE IF Head(text) = "U+00E9" THEN <<"C3", "A9">> \o Utf8Encode(Tail(text))
  ELSE <<Head(text)>> \o Utf8Encode(Tail(text))

\* ---------------------------------------------------------------- JSON.parse
\* ProgressEvent (api/types.ts): every field optional.
NoEvent == [progress |-> <<>>, stage |-> <<>>, result |-> <<>>, error |-> <<>>]
SyntaxError == "Unexpected token in JSON"

MemberLetters == {"p", "q", "e", "r", "R", "U+00E9"}

SetMember(ev, c) ==
  CASE c = "p" -> [ev EXCEPT !.progress = <<50>>]
    [] c = "q" -> [ev EXCEPT !.progress = <<150>>]
    [] c = "e" -> [ev EXCEPT !.error = <<"x">>]
    [] c = "r" -> [ev EXCEPT !.result = <<"R1">>]
    [] c = "R" -> [ev EXCEPT !.result = <<"R2">>]
    [] OTHER   -> [ev EXCEPT !.stage = <<"U+00E9">>]

RECURSIVE Members(_, _)
Members(ev, cs) ==
  IF cs = <<>> THEN ev ELSE Members(SetMember(ev, Head(cs)), Tail(cs))

\* JSON.parse(data) returns (rather than throws a SyntaxError); whitespace
\* around the value is insignificant.
JSONvalid(data) ==
  LET t == Trim(data) IN
    /\ Len(t) >= 2
    /\ t[1] = "{"
    /\ t[Len(t)] = "}"
    /\ \A i \in 2..(Len(t) - 1) : t[i] \in MemberLetters

\* JSON.parse(data), where it returns
JSONparse(data) ==
  LET t == Trim(data) IN Members(NoEvent, Slice(t, 2, Len(t) - 1))

\* ------------------------------------------------------- analyzeStream: scan
\* mutant of ScanFrames: a payload that does not parse is skipped
RECURSIVE ScanFramesSkipBad(_, _)
ScanFramesSkipBad(buffer, events) ==
  LET idx == IndexOfDelimiter(buffer) IN
    IF idx = 0 THEN [events |-> events, buffer |-> buffer, threw |-> FALSE]
    ELSE LET chunk == Trim(Slice(buffer, 1, idx - 1))
             rest  == Slice(buffer, idx + 2, Len(buffer))
             data  == Trim(Slice(chunk, Len(DataPrefix) + 1, Len(chunk)))
         IN IF StartsWithData(chunk) /\ data # <<>> /\ JSONvalid(data)
            THEN ScanFramesSkipBad(rest, Append(events, JSONparse(data)))
            ELSE ScanFramesSkipBad(rest, events)

\* The inner loop `while ((idx = buffer.indexOf("\n\n")) >= 0)`: the events
\* handed to onEvent in order, the buffer that remains, and whether
\* JSON.parse threw (which ends the loop and rejects analyzeStream).
RECURSIVE ScanFrames(_, _)
ScanFrames(buffer, events) ==
  LET idx == IndexOfDelimiter(buffer) IN
    IF idx = 0 THEN [events |-> events, buffer |-> buffer, threw |-> FALSE]
    ELSE LET chunk == Trim(Slice(buffer, 1, idx - 1))
             rest  == Slice(buffer, idx + 2, Len(buffer))
         IN IF StartsWithData(chunk)
            THEN LET data == Trim(Slice(chunk, Len(DataPrefix) + 1, Len(chunk))) IN
                   IF data # <<>>
                   THEN IF JSONvalid(data)
                        THEN ScanFrames(rest, Append(events, JSONparse(data)))
                        ELSE [events |-> events, buffer |-> rest, threw |-> TRUE]
                   ELSE ScanFrames(rest, events)
            ELSE ScanFrames(rest, events)

\* mutant of ReadChunk: `buffer = decoder.decode(value)`, the text left over
\* from earlier reads is lost and each value is decoded on its own
ReadChunkNoCarry(st, value) ==
  LET d == Utf8Decode(<<>>, value, <<>>)
      s == ScanFrames(d.text, <<>>)
  IN  [buffer |-> s.buffer, pending |-> <<>>, events |-> s.events, threw |-> s.threw]

\* One pass of the outer loop after reader.read() returned `value`.
ReadChunk(st, value) ==
  LET d == Utf8Decode(st.pending, value, <<>>)
      s == ScanFrames(st.buffer \o d.text, <<>>)
  IN  [buffer |-> s.buffer, pending |-> d.pending, events |-> s.events, threw |-> s.threw]

\* The wire form of one frame: data:<json>\n\n
Frame(payload) == Utf8Encode(DataPrefix \o payload \o Delimiter)

\* ------------------------------------------------------------------- state
VARIABLES
  result,          \* App: result, <<>> is null
  running,         \* App: running
  progress,        \* App: progress, in hundredths
  status,          \* App: status, [level, message]
  selectedFile,    \* App: selectedFile, <<>> is null
  controllerRef,   \* App: controllerRef.current, 0 is null, else the request
  nreq,            \* number of AbortControllers handleAnalyze has created
  req,             \* per request: its AbortSignal and its analyzeStream call
  lastCall,        \* history: the last onEvent call, [req, event]
  cancelCalled,    \* history: requests handleCancel was called on
  wire,            \* decoder specification: bytes the server sent, not yet read
  sent,            \* decoder specification: payloads the wire was built from
  emitted,         \* decoder specification: events handed to onEvent
  pointsLength,    \* ChartPanel: points.length
  maxLabels,       \* ChartPanel: maxLabels
  tooltipEnabled,  \* ChartPanel: tooltipEnabled
  tooltipThreshold,\* ChartPanel: tooltipThreshold
  option,          \* ChartPanel: the memoised option (step, tooltip, labels)
  fetches,         \* handlePointClick calls awaiting fetchFileContent, by point
  handlerRunning   \* App: `running` in the closure of the registered keydown handler

uiVars == <<result, running, progress, status>>
appVars == <<result, running, progress, status, selectedFile, controllerRef,
             nreq, req, lastCall, cancelCalled>>
decVars == <<wire, sent, emitted>>
chartVars == <<pointsLength, maxLabels, tooltipEnabled, tooltipThreshold, option>>
sideVars == <<fetches, handlerRunning>>
vars == <<appVars, decVars, chartVars, sideVars>>

Requests == 1..MaxReq

\* ----------------------------------------------------------------- status
Status(level, message) == [level |-> level, message |-> message]
Bereit == Status("INFO", "Bereit")
MsgRunning == Status("INFO", "ANALYSE LAEUFT")
MsgKeyword == Status("WARN", "Bitte Messwert eingeben")
MsgDates == Status("WARN", "Start- und Enddatum erforderlich")
MsgAborted == Status("WARN", "Analyse abgebrochen")
MsgDone == Status("OK", "FERTIG")

\* the React state the lifecycle is kept in
Ui == [result |-> result, running |-> running, progress |-> progress, status |-> status]

\* ---------------------------------------------------------------- onEvent
\* mutant of onEvent: the result branch does not call setProgress(1)
onEventNoForce(ui, event) ==
  LET u1 == IF event.progress # <<>> THEN [ui EXCEPT !.progress = event.progress[1]] ELSE ui
      u2 == IF event.error # <<>> /\ event.error[1] # ""
            THEN [u1 EXCEPT !.status = Status("ERROR", event.error[1]), !.running = FALSE]
            ELSE u1
  IN  IF event.result # <<>>
      THEN [u2 EXCEPT !.result = event.result, !.status = [level |-> "OK", message |-> "FERTIG"],
                      !.running = FALSE]
      ELSE u2

\* The callback handleAnalyze passes to analyzeStream, applied to the React
\* state `ui`; later set-state calls overwrite earlier ones.
onEvent(ui, event) ==
  LET u1 == IF event.progress # <<>> THEN [ui EXCEPT !.progress = event.progress[1]] ELSE ui
      u2 == IF event.error # <<>> /\ event.error[1] # ""
            THEN [u1 EXCEPT !.status = Status("ERROR", event.error[1]), !.running = FALSE]
            ELSE u1
      u3 == IF event.result # <<>>
            THEN [u2 EXCEPT !.result = event.result, !.status = MsgDone,
                            !.running = FALSE, !.progress = 100]
            ELSE u2
  IN  u3

RECURSIVE ApplyEvents(_, _)
ApplyEvents(ui, events) ==
  IF events = <<>> THEN ui ELSE ApplyEvents(onEvent(ui, Head(events)), Tail(events))

\* mutant of Catch: signal.aborted is not consulted
CatchAlwaysError(ui, aborted, message) ==
  [ui EXCEPT !.status = Status("ERROR", message), !.running = FALSE]

\* The .catch handler of handleAnalyze, run with the closure's controller.
Catch(ui, aborted, message) ==
  [ui EXCEPT !.status = IF aborted THEN MsgAborted ELSE Status("ERROR", message),
             !.running = FALSE]

SetUi(ui) ==
  /\ result' = ui.result
  /\ running' = ui.running
  /\ progress' = ui.progress
  /\ status' = ui.status

\* ------------------------------------------------------------ the requests
NoDecoder == [buffer |-> <<>>, pending |-> <<>>]
Unused == [phase |-> "unused", aborted |-> FALSE, dec |-> NoDecoder, terminal |-> FALSE]
InFlight(r) == req[r].phase \in {"fetching", "reading"}
NoCall == [req |-> 0, event |-> NoEvent]

\* AbortController.abort() on controllerRef.current (optional chaining)
Abort(rq, c) == IF c = 0 THEN rq ELSE [rq EXCEPT ![c].aborted = TRUE]

\* analyzeStream returned or threw: its locals are gone
Settle(rq, r, phase) == [rq EXCEPT ![r].phase = phase, ![r].dec = NoDecoder]

\* ------------------------------------------------------------ App: the form
\* keyword, analysisMode, startDate and endDate are written by their own
\* setters only, so handleAnalyze can find any combination of them.
FormMenu ==
  { [keyword |-> <<"D">>, analysisMode |-> "last_x", startDate |-> "01-09-25", endDate |-> "30-09-25"],
    [keyword |-> <<"D">>, analysisMode |-> "last_x", startDate |-> "", endDate |-> ""],
    [keyword |-> <<"D">>, analysisMode |-> "date", startDate |-> "01-09-25", endDate |-> "30-09-25"],
    [keyword |-> <<"D">>, analysisMode |-> "date", startDate |-> "", endDate |-> "30-09-25"],
    [keyword |-> <<"D">>, analysisMode |-> "date", startDate |-> "01-09-25", endDate |-> ""],
    [keyword |-> <<>>, analysisMode |-> "last_x", startDate |-> "01-09-25", endDate |-> "30-09-25"],
    [keyword |-> <<" ">>, analysisMode |-> "date", startDate |-> "", endDate |-> ""] }

\* setSelectedMachine with another machine, and the effect that depends on
\* selectedMachine; nothing else modelled here reads selectedMachine.
onMachineSelect ==
  /\ result' = <<>>
  /\ selectedFile' = <<>>
  /\ UNCHANGED <<running, progress, status, controllerRef, nreq, req, lastCall,
                 cancelCalled, decVars, chartVars, sideVars>>

\* ------------------------------------------------------- App: handleAnalyze
KeywordBlank(keyword) == Trim(keyword) = <<>>
DatesMissing(analysisMode, startDate, endDate) ==
  analysisMode = "date" /\ (startDate = "" \/ endDate = "")

\* mutant of ReplaceController: the previous controller is not aborted
ReplaceControllerNoAbort(rq, c, n) ==
  [rq EXCEPT ![n] = [Unused EXCEPT !.phase = "fetching"]]

\* controllerRef.current?.abort(); controllerRef.current = new AbortController()
ReplaceController(rq, c, n) ==
  [Abort(rq, c) EXCEPT ![n] = [Unused EXCEPT !.phase = "fetching"]]

\* mutant of handleAnalyze: the previous request is aborted before the
\* form is validated
handleAnalyzeAbortFirst(keyword, analysisMode, startDate, endDate) ==
  /\ IF KeywordBlank(keyword) \/ DatesMissing(analysisMode, startDate, endDate)
     THEN /\ status' = IF KeywordBlank(keyword) THEN MsgKeyword ELSE MsgDates
          /\ req' = Abort(req, controllerRef)
          /\ UNCHANGED <<result, running, progress, selectedFile, controllerRef, nreq,
                         handlerRunning>>
     ELSE /\ nreq < MaxReq
          /\ nreq' = nreq + 1
          /\ req' = ReplaceController(req, controllerRef, nreq + 1)
          /\ controllerRef' = nreq + 1
          /\ running' = TRUE
          /\ progress' = 0
          /\ status' = MsgRunning
          /\ selectedFile' = <<>>
          /\ handlerRunning' = TRUE
          /\ UNCHANGED result
  /\ UNCHANGED <<lastCall, cancelCalled, decVars, chartVars, fetches>>

handleAnalyze(keyword, analysisMode, startDate, endDate) ==
  /\ IF KeywordBlank(keyword)
     THEN /\ status' = MsgKeyword
          /\ UNCHANGED <<result, running, progress, selectedFile, controllerRef, nreq, req,
                         handlerRunning>>
     ELSE IF DatesMissing(analysisMode, startDate, endDate)
     THEN /\ status' = MsgDates
          /\ UNCHANGED <<result, running, progress, selectedFile, controllerRef, nreq, req,
                         handlerRunning>>
     ELSE /\ nreq < MaxReq
          /\ nreq' = nreq + 1
          /\ req' = ReplaceController(req, controllerRef, nreq + 1)
          /\ controllerRef' = nreq + 1
          /\ running' = TRUE
          /\ progress' = 0
          /\ status' = MsgRunning
          /\ selectedFile' = <<>>
          /\ handlerRunning' = TRUE
          /\ UNCHANGED result
  /\ UNCHANGED <<lastCall, cancelCalled, decVars, chartVars, fetches>>

onRun ==
  \E f \in FormMenu : handleAnalyze(f.keyword, f.analysisMode, f.startDate, f.endDate)

\* -------------------------------------------------------- App: handleCancel
handleCancel ==
  /\ req' = Abort(req, controllerRef)
  /\ cancelCalled' = IF controllerRef = 0 THEN cancelCalled ELSE cancelCalled \cup {controllerRef}
  /\ UNCHANGED <<result, running, progress, status, selectedFile,
                 controllerRef, nreq, lastCall, decVars, chartVars, sideVars>>

\* AnalyzeToolbar: onClick={running ? onCancel : onRun}
RunButton == IF running THEN handleCancel ELSE onRun

\* AnalyzeToolbar: Enter in the keyword field calls onRun
KeywordEnter == onRun

\* App: the effect that depends on [running] ran after a render: the old
\* keydown handler is removed and one closing over the new `running` is added.
\* A render caused by handleAnalyze runs it before the handler returns to the
\* browser; one caused by a stream callback runs it some time later.
KeydownEffect ==
  /\ handlerRunning # running
  /\ handlerRunning' = running
  /\ UNCHANGED <<appVars, decVars, chartVars, fetches>>

\* App: the registered keydown handler, Escape while its `running` is true
EscapeKeydown == handlerRunning /\ handleCancel

\* The same with the effect taken to run together with every render, so
\* that the handler's `running` is the current one.
EscapeKey == running /\ handleCancel

\* ------------------------------------------------- analyzeStream, per request
\* What reader.read() can return as `value` in the lifecycle specification:
\* whole frames, two frames in one chunk, a frame in two halves, a frame
\* with a blank payload, a frame that is not JSON, a comment frame.
FragmentMenu ==
  { Frame(<<"{", "p", "}">>),
    Frame(<<"{", "q", "}">>),
    Frame(<<"{", "e", "}">>),
    Frame(<<"{", "r", "}">>),
    Frame(<<"{", "e", "R", "}">>),
    Frame(<<"{", "p", "R", "}">>),
    Frame(<<"{", "e", "}">>) \o Frame(<<"{", "p", "}">>),
    Frame(<<"{">>),
    Frame(<<" ">>),
    <<":", "k", NL, NL>>,
    <<"d", "a", "t", "a", ":", "{", "r">>,
    <<"}", NL, NL>> }

FetchErrors == {"Analyse konnte nicht gestartet werden (500)", "Failed to fetch",
                "Keine Stream-Verbindung verfuegbar"}
ReadError == "network error"
AbortError == "The user aborted a request."

\* the event makes onEvent call setRunning(false)
Terminal(event) == (event.error # <<>> /\ event.error[1] # "") \/ event.result # <<>>

\* await fetch(...) resolved with response.ok and a body
FetchOk(r) ==
  /\ req[r].phase = "fetching"
  /\ ~req[r].aborted
  /\ req' = [req EXCEPT ![r].phase = "reading"]
  /\ UNCHANGED <<result, running, progress, status, selectedFile,
                 controllerRef, nreq, lastCall, cancelCalled, decVars, chartVars, sideVars>>

\* fetch rejected, !response.ok, or no reader: analyzeStream rejects, .catch runs
FetchFails(r, message) ==
  /\ req[r].phase = "fetching"
  /\ ~req[r].aborted
  /\ req' = Settle(req, r, "rejected")
  /\ SetUi(Catch(Ui, req[r].aborted, message))
  /\ UNCHANGED <<selectedFile, controllerRef, nreq, lastCall, cancelCalled,
                 decVars, chartVars, sideVars>>

\* reader.read() returned {done: false, value}: decode, scan, onEvent per
\* frame; a JSON.parse that throws rejects analyzeStream and .catch runs.
Read(r, value) ==
  /\ req[r].phase = "reading"
  /\ ~req[r].aborted
  /\ \E rc \in {ReadChunk(req[r].dec, value)} :
       LET applied == ApplyEvents(Ui, rc.events)
           rq == [req EXCEPT
                    ![r].dec = [buffer |-> rc.buffer, pending |-> rc.pending],
                    ![r].terminal = @ \/ \E i \in 1..Len(rc.events) : Terminal(rc.events[i])]
       IN
         /\ req' = IF rc.threw THEN Settle(rq, r, "rejected") ELSE rq
         /\ \E ui \in {IF rc.threw THEN Catch(applied, req[r].aborted, SyntaxError) ELSE applied} :
              SetUi(ui)
         /\ lastCall' = IF rc.events = <<>> THEN lastCall
                        ELSE [req |-> r, event |-> rc.events[Len(rc.events)]]
  /\ UNCHANGED <<selectedFile, controllerRef, nreq, cancelCalled>>

ReadValue(r, value) ==
  /\ Read(r, value)
  /\ Len(req'[r].dec.buffer) <= MaxBuffer
  /\ UNCHANGED <<decVars, chartVars, sideVars>>

\* reader.read() returned {done: true}: the loop breaks, analyzeStream resolves
ReadDone(r) ==
  /\ req[r].phase = "reading"
  /\ ~req[r].aborted
  /\ req' = Settle(req, r, "resolved")
  /\ UNCHANGED <<result, running, progress, status, selectedFile,
                 controllerRef, nreq, lastCall, cancelCalled, decVars, chartVars, sideVars>>

\* reader.read() rejected with a network error
ReadFails(r) ==
  /\ req[r].phase = "reading"
  /\ ~req[r].aborted
  /\ req' = Settle(req, r, "rejected")
  /\ SetUi(Catch(Ui, req[r].aborted, ReadError))
  /\ UNCHANGED <<selectedFile, controllerRef, nreq, lastCall, cancelCalled,
                 decVars, chartVars, sideVars>>

\* the signal was aborted: the pending fetch or read rejects with an
\* AbortError and .catch runs, after the handler that called abort() returned
AbortRejects(r) ==
  /\ InFlight(r)
  /\ req[r].aborted
  /\ req' = Settle(req, r, "rejected")
  /\ SetUi(Catch(Ui, req[r].aborted, AbortError))
  /\ UNCHANGED <<selectedFile, controllerRef, nreq, lastCall, cancelCalled,
                 decVars, chartVars, sideVars>>

\* ------------------------------------------------- App: handlePointClick
\* The points of the chart a click can hit: two with a token for their
\* content and one without.
PointMenu ==
  { [label |-> "A", localPathId |-> "a"],
    [label |-> "B", localPathId |-> "b"],
    [label |-> "N", localPathId |-> ""] }

MsgNoContent == Status("WARN", "Kein Inhalt verfuegbar")
MsgLoaded(label) == Status("INFO", "Protokoll " \o label \o " geladen")
ContentErrors == {"Request failed with status code 404", "Network Error"}

\* what GET /file answers for a token
FileContent(token) == "content of " \o token

\* the React state handlePointClick writes
View == [selectedFile |-> selectedFile, status |-> status]

\* after the await: setSelectedFile({name, content}); showStatus(INFO, ...)
ContentLoaded(view, point) ==
  [view EXCEPT
     !.selectedFile = <<[name |-> point.label, content |-> FileContent(point.localPathId)]>>,
     !.status = MsgLoaded(point.label)]

\* the catch branch: showStatus(ERROR, error.message)
ContentFailed(view, message) == [view EXCEPT !.status = Status("ERROR", message)]

SetView(view) ==
  /\ selectedFile' = view.selectedFile
  /\ status' = view.status

Remove(s, i) == SubSeq(s, 1, i - 1) \o SubSeq(s, i + 1, Len(s))

\* ChartPanel's click handler found a point and called onPointClick: either
\* the WARN for a point without token, or fetchFileContent is called and the
\* handler is suspended at the await.
handlePointClick(point) ==
  /\ result # <<>>
  /\ IF point.localPathId = ""
     THEN /\ status' = MsgNoContent
          /\ UNCHANGED fetches
     ELSE /\ Len(fetches) < MaxFetches
          /\ fetches' = Append(fetches, point)
          /\ UNCHANGED status
  /\ UNCHANGED <<result, running, progress, selectedFile, controllerRef, nreq, req,
                 lastCall, cancelCalled, decVars, chartVars, handlerRunning>>

\* fetchFileContent resolved for the i-th call in flight
ContentArrives(i) ==
  /\ i \in 1..Len(fetches)
  /\ SetView(ContentLoaded(View, fetches[i]))
  /\ fetches' = Remove(fetches, i)
  /\ UNCHANGED <<result, running, progress, controllerRef, nreq, req,
                 lastCall, cancelCalled, decVars, chartVars, handlerRunning>>

\* fetchFileContent rejected for the i-th call in flight
ContentFails(i, message) ==
  /\ i \in 1..Len(fetches)
  /\ SetView(ContentFailed(View, message))
  /\ fetches' = Remove(fetches, i)
  /\ UNCHANGED <<result, running, progress, controllerRef, nreq, req,
                 lastCall, cancelCalled, decVars, chartVars, handlerRunning>>

\* ---------------------------------------------------- ChartPanel: option
Max(a, b) == IF a >= b THEN a ELSE b

\* mutant of ChartOption: `<` for `<=` in showTooltips
ChartOptionStrict(n, labels, wanted, threshold) ==
  LET step == Max(1, n \div labels) IN
    [step |-> step,
     showTooltips |-> wanted /\ n < threshold,
     labelled |-> {index \in 0..(n - 1) : index % step = 0}]

\* The useMemo body: showTooltips, step and the axisLabel.interval callback
\* (as the set of indexes it returns true for).
ChartOption(n, labels, wanted, threshold) ==
  LET step == Max(1, n \div labels) IN
    [step |-> step,
     showTooltips |-> wanted /\ n <= threshold,
     labelled |-> {index \in 0..(n - 1) : index % step = 0}]

Render(n, labels, wanted) ==
  /\ pointsLength' = n
  /\ maxLabels' = labels
  /\ tooltipEnabled' = wanted
  /\ option' = ChartOption(n, labels, wanted, tooltipThreshold)
  /\ UNCHANGED <<tooltipThreshold, appVars, decVars, sideVars>>

\* a new result (or null) reaches ChartPanel as the points prop
SetPoints(n) == n # pointsLength /\ Render(n, maxLabels, tooltipEnabled)

onMaxLabelsChange(v) == v # maxLabels /\ Render(pointsLength, v, tooltipEnabled)

onTooltipToggle(checked) == checked # tooltipEnabled /\ Render(pointsLength, maxLabels, checked)

\* ----------------------------------------------------------- specification
InitApp ==
  /\ result = <<>>
  /\ running = FALSE
  /\ progress = 0
  /\ status = Bereit
  /\ selectedFile = <<>>
  /\ controllerRef = 0
  /\ nreq = 0
  /\ req = [r \in Requests |-> Unused]
  /\ lastCall = NoCall
  /\ cancelCalled = {}
  /\ fetches = <<>>
  /\ handlerRunning = running

IdleDecoder ==
  /\ wire = <<>>
  /\ sent = <<>>
  /\ emitted = <<>>

IdleChart ==
  /\ pointsLength = 0
  /\ maxLabels = 1
  /\ tooltipEnabled = TRUE
  /\ tooltipThreshold = 0
  /\ option = ChartOption(0, 1, TRUE, 0)

Init == InitApp /\ IdleDecoder /\ IdleChart

Next ==
  \/ onMachineSelect
  \/ RunButton
  \/ KeywordEnter
  \/ EscapeKey
  \/ \E r \in Requests : FetchOk(r)
  \/ \E r \in Requests, m \in FetchErrors : FetchFails(r, m)
  \/ \E r \in Requests, v \in FragmentMenu : ReadValue(r, v)
  \/ \E r \in Requests : ReadDone(r)
  \/ \E r \in Requests : ReadFails(r)
  \/ \E r \in Requests : AbortRejects(r)

\* The lifecycle: the handlers of App and every request's analyzeStream.
Spec == Init /\ [][Next]_vars

\* What the runtime does on its own: once a request is aborted, its pending
\* fetch or read rejects and the .catch handler runs.  The user and the
\* server are free to do nothing.
AbortSettles == \E r \in Requests : AbortRejects(r)

SpecLive == Spec /\ WF_vars(AbortSettles)

\* The lifecycle together with the clicks on points and their fetches.
NextContent ==
  \/ Next
  \/ \E point \in PointMenu : handlePointClick(point)
  \/ \E i \in 1..MaxFetches : ContentArrives(i)
  \/ \E i \in 1..MaxFetches, m \in ContentErrors : ContentFails(i, m)

SpecContent == Init /\ [][NextContent]_vars

\* The lifecycle with the keydown handler as the effect registers it: the
\* handler keeps the `running` of the render whose effect ran last.
NextKeys ==
  \/ onMachineSelect
  \/ RunButton
  \/ KeywordEnter
  \/ EscapeKeydown
  \/ KeydownEffect
  \/ \E r \in Requests : FetchOk(r)
  \/ \E r \in Requests, m \in FetchErrors : FetchFails(r, m)
  \/ \E r \in Requests, v \in FragmentMenu : ReadValue(r, v)
  \/ \E r \in Requests : ReadDone(r)
  \/ \E r \in Requests : ReadFails(r)
  \/ \E r \in Requests : AbortRejects(r)

SpecKeys == Init /\ [][NextKeys]_vars

\* ------------------------------------------- specification of the decoder
\* One request, started and answered, whose body is a given sequence of
\* frames that reader.read() hands over in fragments of any length.
\* Each payload of the menu is listed with the event it serialises, if any.
PayloadMenu ==
  { [text |-> <<"{", "p", "}">>, json |-> TRUE,
     event |-> [progress |-> <<50>>, stage |-> <<>>, result |-> <<>>, error |-> <<>>]],
    [text |-> <<"{", "U+00E9", "r", "}">>, json |-> TRUE,
     event |-> [progress |-> <<>>, stage |-> <<"U+00E9">>, result |-> <<"R1">>, error |-> <<>>]],
    [text |-> <<" ", "{", "e", "}", NL>>, json |-> TRUE,
     event |-> [progress |-> <<>>, stage |-> <<>>, result |-> <<>>, error |-> <<"x">>]],
    [text |-> <<"{">>, json |-> FALSE, event |-> NoEvent],
    [text |-> <<" ">>, json |-> FALSE, event |-> NoEvent] }

RECURSIVE Body(_)
Body(payloads) ==
  IF payloads = <<>> THEN <<>> ELSE Frame(Head(payloads).text) \o Body(Tail(payloads))

PayloadLists == UNION {[1..n -> PayloadMenu] : n \in 1..MaxFrames}

InitStream ==
  /\ result = <<>>
  /\ running = TRUE
  /\ progress = 0
  /\ status = MsgRunning
  /\ selectedFile = <<>>
  /\ controllerRef = 1
  /\ nreq = 1
  /\ req = [r \in Requests |-> IF r = 1 THEN [Unused EXCEPT !.phase = "reading"] ELSE Unused]
  /\ lastCall = NoCall
  /\ cancelCalled = {}
  /\ fetches = <<>>
  /\ handlerRunning = running

InitDecoder ==
  /\ InitStream
  /\ sent \in PayloadLists
  /\ wire = Body(sent)
  /\ emitted = <<>>
  /\ IdleChart

\* reader.read() returns the next k bytes of the body
DecRead(k) ==
  /\ k <= Len(wire)
  /\ \E value \in {Slice(wire, 1, k)} :
       /\ Read(1, value)
       /\ emitted' = emitted \o ReadChunk(req[1].dec, value).events
  /\ wire' = Slice(wire, k + 1, Len(wire))
  /\ UNCHANGED <<sent, chartVars, sideVars>>

\* the body is exhausted: reader.read() returns {done: true}
DecDone == wire = <<>> /\ ReadDone(1)

NextDecoder ==
  \/ \E k \in 1..Len(wire) : DecRead(k)
  \/ DecDone
  \/ ReadFails(1)
  \/ EscapeKey
  \/ AbortRejects(1)

SpecDecoder == InitDecoder /\ [][NextDecoder]_vars

\* ------------------------------------------- specification of the rendering
InitChart ==
  /\ InitApp
  /\ IdleDecoder
  /\ pointsLength \in 0..MaxPoints
  /\ maxLabels \in 1..MaxLabelsCfg
  /\ tooltipEnabled \in BOOLEAN
  /\ tooltipThreshold \in 0..MaxThreshold
  /\ option = ChartOption(pointsLength, maxLabels, tooltipEnabled, tooltipThreshold)

NextChart ==
  \/ \E n \in 0..MaxPoints : SetPoints(n)
  \/ \E v \in 1..MaxLabelsCfg : onMaxLabelsChange(v)
  \/ \E b \in BOOLEAN : onTooltipToggle(b)

SpecChart == InitChart /\ [][NextChart]_vars

\* ================================================================== claims
Superseded(r) == InFlight(r) /\ r # controllerRef
BothTerminal(event) == event.error # <<>> /\ event.result # <<>>

\* C1 (Supersession): a step taken by the stream of a request that is no
\* longer the current one leaves running, progress, result and status alone.
C1_SupersededStreamIsIgnored ==
  [][\A r \in Requests :
       (Superseded(r) /\ req'[r].phase # req[r].phase) => UNCHANGED uiVars]_vars

\* C2 (Terminal precedence): when the current request, while running, is
\* handed an event that carries both error and result, the controller ends
\* Failed (status ERROR, not FERTIG, not running).
C2_ErrorWinsOverResult ==
  [][(/\ lastCall' # lastCall
      /\ lastCall'.req = controllerRef
      /\ running
      /\ BothTerminal(lastCall'.event)
      /\ req'[controllerRef].phase = "reading")
     => (status'.level = "ERROR" /\ status' # MsgDone /\ ~running')]_vars

\* C3 (Cancel vs fail): when the current request's analyzeStream rejects,
\* the outcome is "Analyse abgebrochen" if and only if handleCancel had been
\* called on that request; otherwise it is an ERROR. Either way running ends.
C3_CancelledIffCancelRequested ==
  [][\A r \in Requests :
       (r = controllerRef /\ InFlight(r) /\ req'[r].phase = "rejected")
       => /\ ~running'
          /\ (status' = MsgAborted) <=> (r \in cancelCalled)
          /\ (r \notin cancelCalled) => status'.level = "ERROR"]_vars

C3_Witness ==
  /\ controllerRef # 0
  /\ controllerRef \in cancelCalled
  /\ req[controllerRef].phase = "rejected"
  /\ status = MsgAborted
  /\ ~running

\* C4 (single flight): at most one request is in flight with its signal not
\* aborted, and it is the one controllerRef holds.
Live == {r \in Requests : InFlight(r) /\ ~req[r].aborted}
C4_AtMostOneInFlight == Cardinality(Live) <= 1 /\ Live \subseteq {controllerRef}

C4_Witness ==
  \E r1, r2 \in Requests :
    /\ r1 # r2
    /\ InFlight(r1) /\ req[r1].aborted
    /\ InFlight(r2) /\ r2 \in Live

\* C6 (terminal events stop consumption): once onEvent has applied an error
\* or result event of a stream, a later onEvent call of that stream leaves
\* running, progress, result and status alone.
C6_NothingAfterTerminal ==
  [][\A r \in Requests :
       (req[r].terminal /\ lastCall' # lastCall /\ lastCall'.req = r)
       => UNCHANGED uiVars]_vars

\* C7 (validation failure): handleAnalyze with a blank keyword, or in mode
\* "date" with a start or end date missing, creates no request, aborts
\* nothing and leaves running, progress and result as they were.
C7_ValidationFailureStartsNothing ==
  [][\A f \in FormMenu :
       (/\ KeywordBlank(f.keyword) \/ DatesMissing(f.analysisMode, f.startDate, f.endDate)
        /\ handleAnalyze(f.keyword, f.analysisMode, f.startDate, f.endDate))
       => UNCHANGED <<result, running, progress, controllerRef, nreq, req>>]_vars

C7_Witness ==
  /\ status \in {MsgKeyword, MsgDates}
  /\ running
  /\ controllerRef \in Live

\* C9 (result): after onEvent is handed an event with a result and no error,
\* result is that result, progress is 1, running is false and the status is
\* FERTIG, whatever progress the event carried.
C9_ResultForcesProgressOne ==
  [][(/\ lastCall' # lastCall
      /\ lastCall'.event.result # <<>>
      /\ lastCall'.event.error = <<>>
      /\ req'[lastCall'.req].phase = "reading")
     => /\ result' = lastCall'.event.result
        /\ progress' = 100
        /\ ~running'
        /\ status' = MsgDone]_vars

C9_Witness ==
  /\ lastCall.event.result # <<>>
  /\ lastCall.event.error = <<>>
  /\ lastCall.event.progress = <<50>>
  /\ result = lastCall.event.result
  /\ progress = 100
  /\ status = MsgDone
  /\ ~running

\* ------------------------------------------------------ claims: the decoder
EventsOf(payloads) == [i \in 1..Len(payloads) |-> payloads[i].event]
IsJson(p) == p.json
Blank(p) == Trim(p.text) = <<>>
EndOf(i) == Len(Body(SubSeq(sent, 1, i)))
Delivered == Len(Body(sent)) - Len(wire)
FramesDelivered == Cardinality({i \in 1..Len(sent) : EndOf(i) <= Delivered})
First(S) == CHOOSE i \in S : \A j \in S : i <= j
ThrewSyntaxError ==
  req[1].phase = "rejected" /\ status = Status("ERROR", SyntaxError) /\ ~running

\* C5 (fragmentation): when every frame of the body carries JSON, then
\* however the body is cut into reads, the events handed to onEvent are the
\* payloads' events in order, one for each frame delivered so far and no
\* others, and the stream does not fail to parse.
C5_FragmentationIndependent ==
  (\A i \in 1..Len(sent) : sent[i].json) =>
     /\ Len(emitted) <= Len(sent)
     /\ emitted = EventsOf(SubSeq(sent, 1, Len(emitted)))
     /\ Len(emitted) >= FramesDelivered
     /\ status.message # SyntaxError

C5_Witness ==
  /\ Len(sent) >= 2
  /\ \A i \in 1..Len(sent) : sent[i].json
  /\ sent[1].text # sent[2].text
  /\ wire = <<>>
  /\ req[1].phase = "resolved"
  /\ emitted = EventsOf(sent)

\* C8 as stated: once the first frame whose payload is not valid JSON has
\* been delivered, the stream has thrown (no later frame is emitted) and the
\* controller is Failed; the frames before it were emitted.
BadFrames == {i \in 1..Len(sent) : ~sent[i].json}
LoudFrames == {i \in 1..Len(sent) : ~sent[i].json /\ ~Blank(sent[i])}
C10_RenderingDecision ==
  /\ option.step >= 1
  /\ pointsLength < maxLabels => option.step = 1
  /\ pointsLength >= maxLabels =>
       /\ option.step * maxLabels <= pointsLength
       /\ pointsLength < (option.step + 1) * maxLabels
  /\ \A i \in 0..MaxPoints :
       i \in option.labelled <=>
         (i < pointsLength /\ \E k \in 0..MaxPoints : i = k * option.step)
  /\ option.showTooltips <=> (tooltipEnabled /\ ~(pointsLength > tooltipThreshold))
  /\ (tooltipEnabled /\ pointsLength = tooltipThreshold) => option.showTooltips
  /\ pointsLength = tooltipThreshold + 1 => ~option.showTooltips

C10_Witness ==
  /\ tooltipEnabled
  /\ pointsLength = tooltipThreshold
  /\ option.showTooltips
  /\ option.step > 1
  /\ Cardinality(option.labelled) > 1

\* ------------------------------------------------ claims: progress, closing
\* C12 (progress range): while running, the stored progress is within [0,1].
C12_ProgressWithinUnitInterval == running => (0 <= progress /\ progress <= 100)

\* C14 (a closed stream ends Running): when the current request's stream has
\* closed normally and the controller is still running, it eventually stops
\* running (or another request takes over).
StreamClosedWhileRunning(r) == controllerRef = r /\ req[r].phase = "resolved" /\ running
C14_ClosedStreamLeavesRunning ==
  \A r \in Requests :
    StreamClosedWhileRunning(r) ~> (~running \/ controllerRef # r)
\* C13 (cancel outside Running): a request whose stream has delivered its
\* terminal event, and on which cancel() was called afterwards, changes
\* nothing of the lifecycle (running, progress, result, status) any more.
CancelledAfterTerminal(r) == r \in cancelCalled /\ req[r].terminal
C13_CancelOutsideRunningIsNoOp ==
  [][\A r \in Requests :
       (CancelledAfterTerminal(r) /\ req'[r] # req[r]) => UNCHANGED uiVars]_vars
\* ------------------------------------------------ claims: content resolver
\* C11 (a fetch leaves the lifecycle alone): a step that completes a
\* fetchFileContent call changes none of running, progress, result, status.
FetchCompletes == Len(fetches') < Len(fetches)
C11_FetchLeavesLifecycleUnchanged ==
  [][FetchCompletes => UNCHANGED uiVars]_vars

\* C15 (arrival order is irrelevant): for any two fetches in flight, the
\* selected file and the status after both responses are the same
\* whichever of the two arrives first.
C15_ArrivalOrderIrrelevant ==
  \A i, j \in 1..Len(fetches) :
    ContentLoaded(ContentLoaded(View, fetches[i]), fetches[j])
      = ContentLoaded(ContentLoaded(View, fetches[j]), fetches[i])
====
